---- MODULE Spec2Model ----
(***************************************************************************)
(* zlp-aperture-positions (main.py): overlay of catalogue apertures on     *)
(* reduced images in ds9.                                                  *)
(*                                                                         *)
(* Three specifications share the definitions of this module:              *)
(*   Spec        the run of main(): pairing of images and catalogues, the  *)
(*               DS9 session, the display cycles and load_regions          *)
(*               (SpecFair: the same run, every statement returning);      *)
(*   SpecRegions the Regions class on its own: construction (from_file or  *)
(*               from a caller's collection) and render_to_file;           *)
(*   SpecSession the DS9 class on its own: one object, its public methods  *)
(*               called in any order.                                      *)
(*                                                                         *)
(* Conventions. The program is Python 2 (itertools.izip), so zip() returns *)
(* a list. Coordinates are whole-valued doubles; fluxes are kept in tenths *)
(* of a flux unit so that 99.9 is a value. A text line is a sequence of    *)
(* one-token strings; a path is a record (directory, stem, number,         *)
(* extensions). None is the integer -1.                                    *)
(***************************************************************************)
EXTENDS Integers, Sequences, FiniteSets, TLC

\* ------------------------------------------------------------------ bounds
\* Longest enumeration glob.iglob may produce.
MaxFiles == 250
\* Most consecutive enumerated paths that are not regular files.
MaxSkip == 1
\* Most rows of a catalogue table.
MaxRows == 4
\* A caller of the DS9 class stops calling once this many ds9.set calls
\* were made.
MaxEvents == 4

\* ------------------------------------------------------- program constants
\* main.py:130   if i % 100 == 0
Stride == 100
\* main.py:45    ind = flux > 100.
FluxThreshold == 100
\* main.py:136   viewer.zoom_level(2)
ReviewZoom == 2
\* main.py:138   time.sleep(2)
PauseSeconds == 2
\* main.py:73-75 defaults of DS9.__init__
DefaultX == 1024
DefaultY == 1024
DefaultZoom == 1

None == 0 - 1

\* A flux of n units, in the tenths the model keeps fluxes in.
Tenths(n) == n * 10

\* ------------------------------------------------------------------- paths
NoPath == [dir |-> "", stem |-> "", id |-> None, ext |-> <<>>]

\* The k-th path glob.iglob(os.path.join(images_dir, 'proc*.fits')) yields.
ImagePath(k) == [dir |-> "images_dir", stem |-> "proc", id |-> k, ext |-> <<".fits">>]

\* os.path.basename: the path without its directory.
basename(p) == [dir |-> "", stem |-> p.stem, id |-> p.id, ext |-> p.ext]

\* '{}.phot'.format(name)
phot_format(b) == [b EXCEPT !.ext = Append(b.ext, ".phot")]

\* os.path.join(directory, name)
path_join(d, b) == [b EXCEPT !.dir = d]

\* The element of the photfiles generator for the enumerated path f.
photfile_of(f) == path_join("photfiles_dir", phot_format(basename(f)))

\* The name tempfile.NamedTemporaryFile(prefix='regions.', suffix='.ds9') gives.
TempPath(n) == [dir |-> "tmp", stem |-> "regions.", id |-> n, ext |-> <<".ds9">>]

\* -------------------------------------------------------------- formatting
DigitChars == <<"0", "1", "2", "3", "4", "5", "6", "7", "8", "9">>

RECURSIVE str_int(_)
str_int(n) ==
  IF n < 10 THEN <<DigitChars[n + 1]>>
  ELSE str_int(n \div 10) \o <<DigitChars[(n % 10) + 1]>>

\* str() of a whole-valued double: its digits and ".0".
str_float(v) == str_int(v) \o <<".", "0">>

\* ------------------------------------------------------------------ Regions
Pair(ra, dec) == [ra |-> ra, dec |-> dec]
Row(ra, dec, flux) == [ra |-> ra, dec |-> dec, core3_flux |-> flux]

\* Rows a catalogue (HDU 1 of the .phot file) may hold: the four of the
\* worked example, one exactly at the threshold and one just above it that
\* repeats a coordinate.
Rows ==
  { Row(10, 20, 500), Row(11, 21, 1500), Row(12, 22, 999), Row(13, 23, 5000),
    Row(10, 20, 1000), Row(11, 21, 1001) }

RECURSIVE SeqsUpTo(_, _)
SeqsUpTo(S, n) ==
  IF n = 0 THEN {<<>>}
  ELSE LET shorter == SeqsUpTo(S, n - 1)
       IN shorter \cup {Append(s, x) : s \in {t \in shorter : Len(t) = n - 1}, x \in S}

Catalogs == SeqsUpTo(Rows, MaxRows)

\* A Python collection: a list (sized, re-iterable) or a one-shot iterator
\* (no len(), consumed by iteration) standing at position pos.
PyList(items) == [kind |-> "list", items |-> items, pos |-> 0]
PyIter(items) == [kind |-> "iter", items |-> items, pos |-> 0]
NoColl == [kind |-> "none", items |-> <<>>, pos |-> 0]

\* A constructor that does not take len(regions): any collection passes.
HasLen_unchecked(c) == c.kind \in {"list", "iter"}

\* len(c) is defined for lists only (TypeError otherwise).
HasLen(c) == c.kind = "list"

\* What a for-loop over c yields, and c after the loop.
Iterate(c) ==
  IF c.kind = "list" THEN c.items ELSE SubSeq(c.items, c.pos + 1, Len(c.items))
AfterIterate(c) ==
  IF c.kind = "list" THEN c ELSE [c EXCEPT !.pos = Len(c.items)]

\* A mask that also keeps a flux equal to the threshold (>= for >).
Mask_inclusive(flux) == [i \in 1..Len(flux) |-> flux[i] >= Tenths(FluxThreshold)]

\* flux > 100. : the boolean mask over the flux column.
Mask(flux) == [i \in 1..Len(flux) |-> flux[i] > Tenths(FluxThreshold)]

\* data[ind] : the elements of data where the mask is set, in index order.
RECURSIVE Select(_, _)
Select(data, ind) ==
  IF data = <<>> THEN <<>>
  ELSE LET n == Len(data)
           front == Select(SubSeq(data, 1, n - 1), SubSeq(ind, 1, n - 1))
       IN IF ind[n] THEN Append(front, data[n]) ELSE front

\* zip(ra, dec) in Python 2: the list of pairs.
Zip(ra, dec) ==
  [i \in 1..(IF Len(ra) < Len(dec) THEN Len(ra) ELSE Len(dec)) |-> Pair(ra[i], dec[i])]

Column(cat, name) ==
  [i \in 1..Len(cat) |->
     IF name = "ra" THEN cat[i].ra
     ELSE IF name = "dec" THEN cat[i].dec ELSE cat[i].core3_flux]

\* Regions.from_file, after the three columns are read: the collection
\* handed to the constructor.
from_file(cat) ==
  LET ra == Column(cat, "ra")
      dec == Column(cat, "dec")
      flux == Column(cat, "core3_flux")
      ind == Mask(flux)
  IN PyList(Zip(Select(ra, ind), Select(dec, ind)))

\* Regions.render_header: one write of three lines.
render_header ==
  << <<"# Region file format: DS9 version 4.1">>,
     <<"global color=green dashlist=8 3 width=1 font=\"helvetica 10 normal roman\" select=1 highlite=1 dash=0 fixed=0 edit=1 move=1 delete=1 include=1 source=1">>,
     <<"fk5">> >>

\* An aperture line whose radius is the 3 pixels, not scaled to arcseconds.
print_aperture_unscaled(ra, dec) ==
  LET radius == 3
  IN <<"circle(">> \o str_float(ra) \o <<",">> \o str_float(dec) \o <<",">>
       \o str_float(radius) \o <<"\")">>

\* Regions.print_aperture
print_aperture(ra, dec) ==
  LET radius == 3 * 5
  IN <<"circle(">> \o str_float(ra) \o <<",">> \o str_float(dec) \o <<",">>
       \o str_float(radius) \o <<"\")">>

\* The lines render_to_file writes for the pairs its loop sees.
render_lines(pairs) ==
  render_header \o [j \in 1..Len(pairs) |-> print_aperture(pairs[j].ra, pairs[j].dec)]

\* The lines in the file after the first w write() calls of render_to_file:
\* the header is one call, each aperture one call.
Written(pairs, w) ==
  IF w = 0 THEN <<>> ELSE SubSeq(render_lines(pairs), 1, 3 + (w - 1))

\* ------------------------------------------------------------------- state
VARIABLES
  args,      \* the parsed command line: xcoord, ycoord, zoom, hide_ui
  pc,        \* position of main() (or of the Regions caller in SpecRegions)
  viewer,    \* main's variable viewer: the DS9 object it names (0: unbound)
  session,   \* the DS9 object's attributes x, y, zoom
  trace,     \* what reached the outside, in order: ds9.set calls and sleeps
  nfiles,    \* paths the iglob generator has yielded so far
  count,     \* next value of itertools.count(0)
  cur,       \* the (i, fname, photfile) triple izip yielded last
  exc,       \* the exception in flight ("" when none)
  catalog,   \* rows of the catalogue from_file read last
  opened,    \* the catalogue path fitsio.FITS was asked to open (NoPath: none)
  given,     \* the collection handed to Regions.__init__ last
  robj,      \* the Regions object's attribute regions (NoColl: no object)
  fs,        \* the overlay files: file id -> exists, lines, open
  rendered,  \* file ids for which render_to_file returned normally
  tfile,     \* load_regions' temporary file id (0 outside the with block)
  made       \* DS9 objects constructed so far (ds9.ds9() calls)

mainVars == <<args, viewer, session, trace, nfiles, count, cur, tfile, made>>
quietVars == <<args, viewer, session, nfiles, count, cur, tfile, made>>
regVars == <<catalog, opened, given, robj, fs, rendered>>
vars == <<args, pc, viewer, session, trace, nfiles, count, cur, exc, tfile, made,
          catalog, opened, given, robj, fs, rendered>>

FileIds == 1..2
\* A file: open is the NamedTemporaryFile handle of load_regions (held from
\* line 109 to the end of the with block), writing the handle render_to_file
\* opens on the same path and closes before it returns.
NoFile == [exists |-> FALSE, lines |-> <<>>, open |-> FALSE, writing |-> FALSE]
NoCycle == [i |-> None, fname |-> NoPath, photfile |-> NoPath]
NoSession == [x |-> None, y |-> None, zoom |-> None]

\* main.py:146-157  namespaces the argument parser produces: --zoom is an
\* int with default 2, -x/-y default to None, --hide-ui is a flag. (-x/-y
\* have no type and arrive as strings; they are only formatted into the pan
\* directive, so the model keeps them as the numbers they spell.)
ArgSets ==
  { [xcoord |-> None, ycoord |-> None, zoom |-> 2, hide_ui |-> h] : h \in BOOLEAN }
  \cup { [xcoord |-> 512, ycoord |-> 600, zoom |-> 3, hide_ui |-> h] : h \in BOOLEAN }

\* ------------------------------------------------------------- the viewer
Directive(cmd, path, a, b) == [cmd |-> cmd, path |-> path, a |-> a, b |-> b]

Event(op, d, ok, cyc) ==
  [op |-> op, cmd |-> d.cmd, path |-> d.path, a |-> d.a, b |-> d.b,
   ok |-> ok, cyc |-> cyc]

\* A method that carries on after a directive raised: every directive of
\* ds is sent, the one after the n-th marked as failed.
Sent_on(ds, n, cyc) ==
  [j \in 1..Len(ds) |-> Event("set", ds[j], j # n + 1, cyc)]

\* The ds9.set calls a method makes when its n first directives are
\* accepted: all of ds when n = Len(ds), else the n accepted ones and the
\* one that raised, after which the method is left.
Sent(ds, n, cyc) ==
  [j \in 1..(IF n < Len(ds) THEN n + 1 ELSE n) |-> Event("set", ds[j], j <= n, cyc)]

\* DS9.__init__: the attributes it stores.
DS9_init(x, y, zoom) ==
  [x |-> IF x # None THEN x ELSE DefaultX,
   y |-> IF y # None THEN y ELSE DefaultY,
   zoom |-> IF zoom # None THEN zoom ELSE DefaultZoom]

init_directives ==
  << Directive("regions system wcs sky fk5 skyformat degrees", NoPath, None, None) >>

UiElements == <<"buttons", "panner", "magnifier", "filename", "object", "info">>

\* A hide_ui without the closing 'sleep'.
hide_ui_no_sleep ==
  [j \in 1..Len(UiElements) |-> Directive("view no", NoPath, j, None)]

\* DS9.hide_ui
hide_ui_directives ==
  [j \in 1..Len(UiElements) |-> Directive("view no", NoPath, j, None)]
    \o << Directive("sleep", NoPath, None, None) >>

pan_to(x, y) == Directive("pan to physical", NoPath, x, y)
set_zscale == Directive("zscale", NoPath, None, None)
zoom_level(level) == Directive("zoom", NoPath, level, None)
zoom_to_fit == Directive("zoom to fit", NoPath, None, None)

\* An open_file that sets the coordinate system again at every image.
open_file_resets_system(self, fname) ==
  << Directive("regions system wcs sky fk5 skyformat degrees", NoPath, None, None),
     Directive("file", fname, None, None),
     pan_to(self.x, self.y),
     set_zscale,
     zoom_level(self.zoom) >>

\* An open_file that loads the image and does not re-apply the pan.
open_file_no_pan(self, fname) ==
  << Directive("file", fname, None, None),
     set_zscale,
     zoom_level(self.zoom) >>

\* DS9.open_file
open_file_directives(self, fname) ==
  << Directive("file", fname, None, None),
     pan_to(self.x, self.y),
     set_zscale,
     zoom_level(self.zoom) >>

load_regions_directive(name) == Directive("regions", name, None, None)

\* What open_file returns to its caller: self.
open_file_return(self) == self

\* A temporary file that is closed and not deleted (delete=False).
temp_exit_keep(files, t) == [files EXCEPT ![t].open = FALSE]

\* The files after NamedTemporaryFile.__exit__ closed (and so deleted) t.
temp_exit(files, t) == [files EXCEPT ![t] = NoFile]

\* A render_to_file that leaves its handle open: what it wrote is still in
\* the buffer, not in the file.
render_to_file_unclosed(files, d, pairs, w) ==
  [files EXCEPT ![d] = [exists |-> TRUE, lines |-> <<>>, open |-> files[d].open,
                        writing |-> TRUE]]

\* The files after render_to_file made w write() calls on file d: open(d, 'w')
\* truncates, the with block closes that handle on every path; a handle the
\* caller holds on the file stays as it is.
render_to_file(files, d, pairs, w) ==
  [files EXCEPT ![d] = [exists |-> TRUE, lines |-> Written(pairs, w),
                        open |-> files[d].open, writing |-> FALSE]]

\* write() calls of a complete render_to_file over pairs.
AllWrites(pairs) == 1 + Len(pairs)

\* Catalogues the run of main() finds on disk.
RunCatalogs ==
  { <<>>,
    <<Row(10, 20, 1000)>>,
    <<Row(10, 20, 500), Row(11, 21, 1500), Row(12, 22, 999), Row(13, 23, 5000)>> }

\* Collections a caller hands to Regions(...) directly.
CoordPairs == {Pair(10, 20), Pair(11, 21), Pair(13, 23)}
Collections ==
  {PyList(s) : s \in SeqsUpTo(CoordPairs, MaxRows)}
    \cup {PyIter(s) : s \in SeqsUpTo(CoordPairs, MaxRows)}

\* -------------------------------------------------------------------- Init
IdleRegions ==
  /\ catalog = <<>>
  /\ opened = NoPath
  /\ given = NoColl
  /\ robj = NoColl
  /\ fs = [f \in FileIds |-> NoFile]
  /\ rendered = {}

IdleMain ==
  /\ viewer = 0
  /\ session = NoSession
  /\ trace = <<>>
  /\ nfiles = 0
  /\ count = 0
  /\ cur = NoCycle
  /\ tfile = 0
  /\ made = 0

Init ==
  /\ args \in ArgSets
  /\ pc = "start"
  /\ exc = ""
  /\ IdleMain
  /\ IdleRegions

\* ---------------------------------------------------------- main(): lines
\* A loop body without the pause: the next cycle follows load_regions.
main_after_no_pause(at, i, hide) ==
  IF at = "next" THEN (IF i % Stride = 0 THEN "open" ELSE "loop")
  ELSE IF at = "open" THEN (IF hide THEN "hide" ELSE "zoom")
  ELSE IF at = "hide" THEN "zoom"
  ELSE IF at = "zoom" THEN "load_regions"
  ELSE "loop"

\* A loop body that displays every cycle (no stride test).
main_after_every_cycle(at, i, hide) ==
  IF at = "next" THEN "open"
  ELSE IF at = "open" THEN (IF hide THEN "hide" ELSE "zoom")
  ELSE IF at = "hide" THEN "zoom"
  ELSE IF at = "zoom" THEN "load_regions"
  ELSE IF at = "load_regions" THEN "sleep"
  ELSE "loop"

\* main.py:129-138  the statement main() goes to when the statement at
\* `at` has returned normally, for the triple izip yielded with index i.
main_after(at, i, hide) ==
  IF at = "next" THEN (IF i % Stride = 0 THEN "open" ELSE "loop")
  ELSE IF at = "open" THEN (IF hide THEN "hide" ELSE "zoom")
  ELSE IF at = "hide" THEN "zoom"
  ELSE IF at = "zoom" THEN "load_regions"
  ELSE IF at = "load_regions" THEN "sleep"
  ELSE "loop"

\* A method that issues the directives ds for cycle cyc: the first n are
\* accepted; a directive that raises ends main() with the exception.
Issue(ds, n, cyc, next) ==
  /\ trace' = trace \o Sent(ds, n, cyc)
  /\ pc' = IF n = Len(ds) THEN next ELSE "crashed"
  /\ exc' = IF n = Len(ds) THEN "" ELSE "ViewerUnavailable(set)"

\* main.py:127  viewer = DS9(x=args.xcoord, y=args.ycoord, zoom=args.zoom)
main_construct ==
  /\ pc = "start"
  /\ session' = DS9_init(args.xcoord, args.ycoord, args.zoom)
  /\ made' = made + 1
  /\ \/ \* ds9.ds9() cannot reach the viewer
        /\ pc' = "crashed"
        /\ exc' = "ViewerUnavailable(connect)"
        /\ UNCHANGED <<trace, viewer>>
     \/ \E n \in 0..Len(init_directives) :
          /\ Issue(init_directives, n, None, "loop")
          /\ viewer' = IF n = Len(init_directives) THEN made' ELSE viewer
  /\ UNCHANGED <<args, nfiles, count, cur, tfile>>
  /\ UNCHANGED regVars

\* main.py:129  one step of izip(count(0), files, photfiles); files and the
\* generator photfiles draw from the same iglob generator.
main_next ==
  /\ pc = "loop"
  /\ count' = count + 1
  /\ \/ \* next(files) raises StopIteration
        /\ nfiles' = nfiles
        /\ pc' = "done"
        /\ UNCHANGED cur
     \/ \E skipped \in 0..MaxSkip :
          /\ nfiles + 1 + skipped <= MaxFiles
          /\ \/ \* next(photfiles): the generator runs dry looking for a regular file
                /\ nfiles' = nfiles + 1 + skipped
                /\ pc' = "done"
                /\ UNCHANGED cur
             \/ /\ nfiles + 2 + skipped <= MaxFiles
                /\ nfiles' = nfiles + 2 + skipped
                /\ cur' = [i |-> count,
                           fname |-> ImagePath(nfiles),
                           photfile |-> photfile_of(ImagePath(nfiles + 1 + skipped))]
                /\ pc' = main_after("next", count, args.hide_ui)
  /\ UNCHANGED <<args, viewer, session, trace, exc, tfile, made>>
  /\ UNCHANGED regVars

\* main.py:132  viewer = viewer.open_file(fname)
main_open_file ==
  /\ pc = "open"
  /\ \E n \in 0..4 :
       /\ Issue(open_file_directives(session, cur.fname), n, cur.i,
                main_after("open", cur.i, args.hide_ui))
       /\ viewer' = IF n = 4 THEN open_file_return(viewer) ELSE viewer
  /\ UNCHANGED <<args, session, nfiles, count, cur, tfile, made>>
  /\ UNCHANGED regVars

\* main.py:133-134  if args.hide_ui: viewer.hide_ui()
main_hide_ui ==
  /\ pc = "hide"
  /\ \E n \in 0..Len(hide_ui_directives) :
       Issue(hide_ui_directives, n, cur.i, main_after("hide", cur.i, args.hide_ui))
  /\ UNCHANGED quietVars
  /\ UNCHANGED regVars

\* main.py:136  viewer.zoom_level(2)
main_zoom_level ==
  /\ pc = "zoom"
  /\ \E n \in 0..1 :
       Issue(<<zoom_level(ReviewZoom)>>, n, cur.i, main_after("zoom", cur.i, args.hide_ui))
  /\ UNCHANGED quietVars
  /\ UNCHANGED regVars

\* main.py:109  with tempfile.NamedTemporaryFile(...) as tfile
load_regions_enter ==
  /\ pc = "load_regions"
  /\ \E t \in FileIds :
       /\ ~fs[t].exists
       /\ fs' = [fs EXCEPT ![t] = [exists |-> TRUE, lines |-> <<>>, open |-> TRUE,
                                  writing |-> FALSE]]
       /\ tfile' = t
  /\ pc' = "lr_from_file"
  /\ UNCHANGED <<args, viewer, session, trace, nfiles, count, cur, exc, made>>
  /\ UNCHANGED <<catalog, opened, given, robj, rendered>>

\* main.py:110  Regions.from_file(fname): read, filter, construct
load_regions_from_file ==
  /\ pc = "lr_from_file"
  /\ opened' = cur.photfile
  /\ \/ \* fitsio cannot open the file, or a column is absent
        /\ exc' = "CatalogReadError"
        /\ pc' = "lr_exit"
        /\ UNCHANGED <<catalog, given, robj>>
     \/ \E cat \in RunCatalogs :
          /\ catalog' = cat
          /\ given' = from_file(cat)
          /\ IF HasLen(given')
             THEN robj' = given' /\ pc' = "lr_render" /\ exc' = ""
             ELSE robj' = robj /\ pc' = "lr_exit" /\ exc' = "TypeError"
  /\ UNCHANGED mainVars
  /\ UNCHANGED <<fs, rendered>>

\* main.py:110  .render_to_file(tfile.name)
load_regions_render ==
  /\ pc = "lr_render"
  /\ \E w \in 0..AllWrites(Iterate(robj)) :
       /\ fs' = render_to_file(fs, tfile, Iterate(robj), w)
       /\ IF w = AllWrites(Iterate(robj))
          THEN rendered' = rendered \cup {tfile} /\ pc' = "lr_set" /\ exc' = ""
          ELSE rendered' = rendered /\ pc' = "lr_exit" /\ exc' = "IOError"
  /\ robj' = AfterIterate(robj)
  /\ UNCHANGED mainVars
  /\ UNCHANGED <<catalog, opened, given>>

\* main.py:111-113  tfile.seek(0) on the handle the with block holds (no
\* effect on the file), then self.ds9.set('regions {}'.format(tfile.name))
load_regions_set ==
  /\ pc = "lr_set"
  /\ \E n \in 0..1 :
       /\ trace' = trace \o Sent(<<load_regions_directive(TempPath(tfile))>>, n, cur.i)
       /\ exc' = IF n = 1 THEN "" ELSE "ViewerUnavailable(set)"
  /\ pc' = "lr_exit"
  /\ UNCHANGED <<args, viewer, session, nfiles, count, cur, tfile, made>>
  /\ UNCHANGED regVars

\* main.py:109-114  leaving the with block: the temporary file is closed and
\* deleted; load_regions returns, or the exception goes on to end main().
load_regions_exit ==
  /\ pc = "lr_exit"
  /\ fs' = temp_exit(fs, tfile)
  /\ tfile' = 0
  /\ catalog' = <<>>
  /\ opened' = NoPath
  /\ given' = NoColl
  /\ robj' = NoColl
  /\ rendered' = {}
  /\ pc' = IF exc = "" THEN main_after("load_regions", cur.i, args.hide_ui) ELSE "crashed"
  /\ UNCHANGED <<args, viewer, session, trace, nfiles, count, cur, exc, made>>

\* main.py:138  time.sleep(2)
main_sleep ==
  /\ pc = "sleep"
  /\ trace' = Append(trace, Event("sleep", Directive("", NoPath, PauseSeconds, None), TRUE, cur.i))
  /\ pc' = main_after("sleep", cur.i, args.hide_ui)
  /\ UNCHANGED <<args, viewer, session, nfiles, count, cur, exc, tfile, made>>
  /\ UNCHANGED regVars

Next ==
  \/ main_construct
  \/ main_next
  \/ main_open_file
  \/ main_hide_ui
  \/ main_zoom_level
  \/ load_regions_enter
  \/ load_regions_from_file
  \/ load_regions_render
  \/ load_regions_set
  \/ load_regions_exit
  \/ main_sleep

Spec == Init /\ [][Next]_vars

\* main() is one thread that runs each statement to its end: no statement
\* waits for ever (time.sleep(2) and each ds9.set round trip return).
SpecFair == Spec /\ WF_vars(Next)

\* ------------------------------------------------ the Regions class alone
InitRegions ==
  /\ args = [xcoord |-> None, ycoord |-> None, zoom |-> 2, hide_ui |-> FALSE]
  /\ pc = "r_start"
  /\ exc = ""
  /\ IdleMain
  /\ IdleRegions

\* main.py:36-48  Regions.from_file(fname)
regions_from_file ==
  /\ pc = "r_start"
  /\ opened' = photfile_of(ImagePath(0))
  /\ \/ \* fitsio cannot open the file, or a column is absent
        /\ exc' = "CatalogReadError"
        /\ pc' = "r_failed"
        /\ UNCHANGED <<catalog, given, robj>>
     \/ \E cat \in Catalogs :
          /\ catalog' = cat
          /\ given' = from_file(cat)
          /\ IF HasLen(given')
             THEN robj' = given' /\ pc' = "r_built" /\ exc' = ""
             ELSE robj' = robj /\ pc' = "r_failed" /\ exc' = "TypeError"
  /\ UNCHANGED mainVars
  /\ UNCHANGED <<fs, rendered>>

\* main.py:26-33  Regions(regions): len(regions) is taken before the
\* collection is stored.
regions_init ==
  /\ pc = "r_start"
  /\ \E c \in Collections :
       /\ given' = c
       /\ IF HasLen(c)
          THEN robj' = c /\ pc' = "r_built" /\ exc' = ""
          ELSE robj' = robj /\ pc' = "r_failed" /\ exc' = "TypeError"
  /\ UNCHANGED mainVars
  /\ UNCHANGED <<catalog, opened, fs, rendered>>

\* main.py:50-55  render_to_file(outfname) to a destination not written yet
regions_render_to_file ==
  /\ pc = "r_built"
  /\ \E d \in FileIds :
       /\ ~fs[d].exists
       /\ \E w \in 0..AllWrites(Iterate(robj)) :
            /\ fs' = render_to_file(fs, d, Iterate(robj), w)
            /\ IF w = AllWrites(Iterate(robj))
               THEN rendered' = rendered \cup {d} /\ pc' = "r_built" /\ exc' = ""
               ELSE rendered' = rendered /\ pc' = "r_failed" /\ exc' = "IOError"
  /\ robj' = AfterIterate(robj)
  /\ UNCHANGED mainVars
  /\ UNCHANGED <<catalog, opened, given>>

NextRegions ==
  \/ regions_from_file
  \/ regions_init
  \/ regions_render_to_file

SpecRegions == InitRegions /\ [][NextRegions]_vars

\* --------------------------------------------------- the DS9 class alone
\* A caller that constructs one DS9 object and calls its public methods in
\* any order, with any of these arguments.
SessionArgs ==
  { [x |-> None, y |-> None, zoom |-> None],
    [x |-> None, y |-> None, zoom |-> 2],
    [x |-> 512, y |-> 600, zoom |-> 3] }
PanTargets == { [x |-> 100, y |-> 200], [x |-> 512, y |-> 600] }
ZoomLevels == {1, 2, 4}

InitSession ==
  /\ args = [xcoord |-> None, ycoord |-> None, zoom |-> 2, hide_ui |-> FALSE]
  /\ pc = "s_start"
  /\ exc = ""
  /\ IdleMain
  /\ IdleRegions

\* A method of the session issues ds: the first n are accepted; a directive
\* that raises leaves the method and the caller.
SessionIssue(ds, n) ==
  /\ trace' = trace \o Sent(ds, n, None)
  /\ pc' = IF n = Len(ds) THEN "s_ready" ELSE "s_failed"
  /\ exc' = IF n = Len(ds) THEN "" ELSE "ViewerUnavailable(set)"

SessionReady == pc = "s_ready" /\ Len(trace) < MaxEvents

\* main.py:71-80  DS9(x, y, zoom)
session_construct ==
  /\ pc = "s_start"
  /\ \E a \in SessionArgs :
       session' = DS9_init(a.x, a.y, a.zoom)
  /\ made' = made + 1
  /\ \/ /\ pc' = "s_failed"
        /\ exc' = "ViewerUnavailable(connect)"
        /\ UNCHANGED <<trace, viewer>>
     \/ \E n \in 0..Len(init_directives) :
          /\ SessionIssue(init_directives, n)
          /\ viewer' = IF n = Len(init_directives) THEN made' ELSE viewer
  /\ UNCHANGED <<args, nfiles, count, cur, tfile>>
  /\ UNCHANGED regVars

\* main.py:88-94  open_file(fname)
session_open_file ==
  /\ SessionReady
  /\ \E n \in 0..4 :
       /\ SessionIssue(open_file_directives(session, ImagePath(0)), n)
       /\ viewer' = IF n = 4 THEN open_file_return(viewer) ELSE viewer
  /\ UNCHANGED <<args, session, nfiles, count, cur, tfile, made>>
  /\ UNCHANGED regVars

\* main.py:96-97  pan_to(x, y)
session_pan_to ==
  /\ SessionReady
  /\ \E p \in PanTargets : \E n \in 0..1 : SessionIssue(<<pan_to(p.x, p.y)>>, n)
  /\ UNCHANGED quietVars
  /\ UNCHANGED regVars

\* main.py:99-101  set_zscale()
session_set_zscale ==
  /\ SessionReady
  /\ \E n \in 0..1 : SessionIssue(<<set_zscale>>, n)
  /\ UNCHANGED quietVars
  /\ UNCHANGED regVars

\* main.py:103-105  zoom_to_fit()
session_zoom_to_fit ==
  /\ SessionReady
  /\ \E n \in 0..1 : SessionIssue(<<zoom_to_fit>>, n)
  /\ UNCHANGED quietVars
  /\ UNCHANGED regVars

\* main.py:116-118  zoom_level(level)
session_zoom_level ==
  /\ SessionReady
  /\ \E level \in ZoomLevels : \E n \in 0..1 : SessionIssue(<<zoom_level(level)>>, n)
  /\ UNCHANGED quietVars
  /\ UNCHANGED regVars

\* main.py:82-86  hide_ui()
session_hide_ui ==
  /\ SessionReady
  /\ \E n \in 0..Len(hide_ui_directives) : SessionIssue(hide_ui_directives, n)
  /\ UNCHANGED quietVars
  /\ UNCHANGED regVars

\* main.py:107-114  load_regions(fname), from the creation of the temporary
\* file to its deletion: the catalogue cannot be read, or the overlay cannot
\* be written, or the directive is issued.
session_load_regions ==
  /\ SessionReady
  /\ \E t \in FileIds :
       /\ ~fs[t].exists
       /\ \/ /\ exc' = "CatalogReadError"
             /\ pc' = "s_failed"
             /\ fs' = temp_exit([fs EXCEPT ![t].exists = TRUE, ![t].open = TRUE], t)
             /\ UNCHANGED trace
          \/ \E cat \in RunCatalogs :
               LET pairs == Iterate(from_file(cat))
               IN \E w \in 0..AllWrites(pairs) :
                    /\ fs' = temp_exit(
                               render_to_file(
                                 [fs EXCEPT ![t].exists = TRUE, ![t].open = TRUE],
                                 t, pairs, w), t)
                    /\ IF w < AllWrites(pairs)
                       THEN /\ exc' = "IOError"
                            /\ pc' = "s_failed"
                            /\ UNCHANGED trace
                       ELSE \E n \in 0..1 :
                              SessionIssue(<<load_regions_directive(TempPath(t))>>, n)
  /\ UNCHANGED quietVars
  /\ UNCHANGED <<catalog, opened, given, robj, rendered>>

NextSession ==
  \/ session_construct
  \/ session_open_file
  \/ session_pan_to
  \/ session_set_zscale
  \/ session_zoom_to_fit
  \/ session_zoom_level
  \/ session_hide_ui
  \/ session_load_regions

SpecSession == InitSession /\ [][NextSession]_vars

\* ================================================================= claims
\* Helpers of the claims: the accepted and attempted directives.
Last(seq) == seq[Len(seq)]
CycleEvents(c) == SelectSeq(trace, LAMBDA e : e.cyc = c)
CyclesShown == {trace[j].cyc : j \in DOMAIN trace} \ {None}
Displayed(k) ==
  \E j \in DOMAIN trace :
    trace[j].cmd = "file" /\ trace[j].ok /\ trace[j].path = ImagePath(k)
InLoadRegions == pc \in {"lr_from_file", "lr_render", "lr_set", "lr_exit"}
Existing == {f \in FileIds : fs[f].exists}

\* C1: in every (i, image, catalogue) triple the pairing produces, the
\* catalogue path is the catalogue directory joined with the base name of
\* that same triple's image plus '.phot'.
C1_CatalogOfSameImage ==
  cur.i # None =>
    cur.photfile =
      [dir |-> "photfiles_dir", stem |-> cur.fname.stem, id |-> cur.fname.id,
       ext |-> cur.fname.ext \o <<".phot">>]

\* C2: the image at position k of the enumeration is displayed if and only
\* if k is a multiple of the stride 100: no other image is ever opened, and
\* once the enumeration is exhausted every enumerated multiple of 100 was.
C2_DisplayedIffMultipleOfStride ==
  /\ \A j \in DOMAIN trace :
       trace[j].cmd = "file" => trace[j].path.id % 100 = 0
  /\ pc = "done" =>
       \A k \in 0..(nfiles - 1) : k % 100 = 0 => Displayed(k)

\* C3: a catalogue read error in load_regions is confined to its cycle: the
\* run of main() does not end because of it.
C3_CatalogErrorConfined ==
  pc = "crashed" => exc # "CatalogReadError"

\* C4: the events of a selected cycle are, in this order, the four directives
\* of open_file, the seven of hide_ui when and only when the toggle is on,
\* zoom 2, the load of the overlay written from that cycle's catalogue, and
\* the pause; the events of a cycle are contiguous, and a later cycle's first
\* event follows the pause that completes the cycle before it.
C4_Script(c) ==
  LET ev == CycleEvents(c)
      H == IF args.hide_ui THEN 7 ELSE 0
  IN /\ Len(ev) <= 7 + H
     /\ \A k \in 1..Len(ev) :
          /\ k = 1 => ev[k].op = "set" /\ ev[k].cmd = "file"
          /\ k \in 2..4 =>
               ev[k].op = "set" /\ ev[k].cmd \in {"pan to physical", "zscale", "zoom"}
          /\ (k \in 5..(4 + H) /\ k < 4 + H) =>
               ev[k].op = "set" /\ ev[k].cmd = "view no"
          /\ (H > 0 /\ k = 4 + H) => ev[k].op = "set" /\ ev[k].cmd = "sleep"
          /\ k = 5 + H => ev[k].op = "set" /\ ev[k].cmd = "zoom" /\ ev[k].a = 2
          /\ k = 6 + H => ev[k].op = "set" /\ ev[k].cmd = "regions"
          /\ k = 7 + H => ev[k].op = "sleep"
     /\ (c < cur.i \/ pc \in {"loop", "done"}) => (Len(ev) = 7 + H /\ ev[7 + H].ok)
C4_CycleOrder ==
  /\ \A c \in CyclesShown : C4_Script(c)
  /\ \A j \in 1..(Len(trace) - 1) :
       /\ trace[j].cyc <= trace[j + 1].cyc
       /\ (trace[j].cyc # None /\ trace[j].cyc < trace[j + 1].cyc) =>
            trace[j].op = "sleep"
  /\ (pc = "lr_exit" /\ trace # <<>> /\ Last(trace).cmd = "regions") =>
       /\ Last(trace).cyc = cur.i
       /\ Last(trace).path = TempPath(tfile)
       /\ opened = cur.photfile
C4_Witness ==
  /\ pc = "loop"
  /\ cur.i = 100
  /\ args.hide_ui
  /\ Last(trace).op = "sleep"
  /\ Len(CycleEvents(100)) = 14

\* C5: whenever load_regions is not running no temporary overlay file
\* exists, whichever way it was left (return, catalogue error, write error,
\* failed load-overlay directive), and at most one exists at any time.
C5_TempReleased ==
  /\ ~InLoadRegions => Existing = {}
  /\ Cardinality(Existing) <= 1
C5_Witness ==
  /\ pc = "crashed"
  /\ trace # <<>>
  /\ Last(trace).cmd = "regions"
  /\ ~Last(trace).ok
  /\ Existing = {}

\* C6: from_file keeps row i if and only if its flux is strictly above 100
\* (a flux of exactly 100 is dropped), and the regions are the (ra, dec) of
\* the kept rows, unchanged, in row order, duplicates kept.
C6_Kept == {i \in 1..Len(catalog) : catalog[i].core3_flux > 1000}
C6_FilterStrict ==
  (opened # NoPath /\ pc = "r_built") =>
    /\ robj.kind = "list"
    /\ Len(robj.items) = Cardinality(C6_Kept)
    /\ \A i \in C6_Kept :
         LET j == Cardinality({k \in C6_Kept : k <= i})
         IN robj.items[j] = [ra |-> catalog[i].ra, dec |-> catalog[i].dec]
C6_Witness ==
  /\ pc = "r_built"
  /\ catalog = << [ra |-> 10, dec |-> 20, core3_flux |-> 500],
                  [ra |-> 11, dec |-> 21, core3_flux |-> 1500],
                  [ra |-> 12, dec |-> 22, core3_flux |-> 999],
                  [ra |-> 13, dec |-> 23, core3_flux |-> 5000] >>
  /\ robj.items = << [ra |-> 11, dec |-> 21], [ra |-> 13, dec |-> 23] >>

\* C7: every open_file issues the load-image directive and then, with
\* nothing in between, the pan to the session's (x, y), zscale and the zoom
\* to the session's zoom, and hands the same DS9 object back; at every call.
C7_OpenFileReasserts ==
  /\ \A j \in DOMAIN trace :
       (trace[j].cmd = "file" /\ trace[j].ok) =>
         /\ j + 1 <= Len(trace) =>
              /\ trace[j + 1].op = "set"
              /\ trace[j + 1].cmd = "pan to physical"
              /\ trace[j + 1].a = session.x
              /\ trace[j + 1].b = session.y
         /\ (j + 2 <= Len(trace) /\ trace[j + 1].ok) =>
              trace[j + 2].op = "set" /\ trace[j + 2].cmd = "zscale"
         /\ (j + 3 <= Len(trace) /\ trace[j + 1].ok /\ trace[j + 2].ok) =>
              /\ trace[j + 3].op = "set"
              /\ trace[j + 3].cmd = "zoom"
              /\ trace[j + 3].a = session.zoom
  /\ pc = (IF args.hide_ui THEN "hide" ELSE "zoom") =>
       /\ viewer = 1
       /\ Len(trace) >= 4
       /\ trace[Len(trace) - 3].cmd = "file"
       /\ trace[Len(trace) - 3].path = cur.fname
       /\ \A k \in 0..3 : trace[Len(trace) - k].ok
C7_Witness ==
  /\ pc = "hide"
  /\ cur.i = 100
  /\ session.x = 512
  /\ Last(trace).cmd = "zoom"
  /\ Last(trace).a = 3

\* C8: a viewer failure ends the run and is not retried: after a failed
\* connection no directive is issued and no cycle starts; a directive that
\* failed is the last thing the run does to the viewer (nothing is sent or
\* paused after it), and main() is on its way out.
C8_ViewerFailureFatal ==
  /\ exc = "ViewerUnavailable(connect)" =>
       trace = <<>> /\ cur = NoCycle /\ pc = "crashed" /\ viewer = 0
  /\ \A j \in DOMAIN trace : ~trace[j].ok => j = Len(trace)
  /\ (\E j \in DOMAIN trace : ~trace[j].ok) => pc \in {"crashed", "lr_exit"}
C8_Witness ==
  /\ pc = "crashed"
  /\ Len(trace) >= 2
  /\ Last(trace).cmd = "view no"
  /\ ~Last(trace).ok
  /\ trace[Len(trace) - 1].ok

\* C9: for a Regions object of n pairs a completed render_to_file leaves
\* the three header lines followed by n circle lines, the j-th with the j-th
\* pair's ra and dec and the radius 15.0; for n = 0 the header alone.
C9_RenderExact ==
  \A d \in rendered :
    LET L == fs[d].lines
        P == robj.items
    IN /\ Len(L) = 3 + Len(P)
       /\ L[1] = <<"# Region file format: DS9 version 4.1">>
       /\ L[2] = <<"global color=green dashlist=8 3 width=1 font=\"helvetica 10 normal roman\" select=1 highlite=1 dash=0 fixed=0 edit=1 move=1 delete=1 include=1 source=1">>
       /\ L[3] = <<"fk5">>
       /\ \A j \in 1..Len(P) :
            L[3 + j] = <<"circle(">> \o str_float(P[j].ra) \o <<",">>
                         \o str_float(P[j].dec) \o <<",", "1", "5", ".", "0", "\")">>
C9_Witness ==
  /\ pc = "r_built"
  /\ 1 \in rendered
  /\ robj.items = << [ra |-> 11, dec |-> 21], [ra |-> 13, dec |-> 23] >>
  /\ Len(fs[1].lines) = 5
  /\ fs[1].lines[5] =
       <<"circle(", "1", "3", ".", "0", ",", "2", "3", ".", "0", ",", "1", "5", ".", "0", "\")">>

\* C10: two completed render_to_file calls of one Regions object, to two
\* empty destinations, leave identical files, each with all the regions,
\* and the object's collection is the one it was constructed with.
C10_RenderRepeatable ==
  rendered = {1, 2} =>
    /\ fs[1].lines = fs[2].lines
    /\ Len(fs[2].lines) = 3 + Len(given.items)
    /\ robj = given
C10_Witness ==
  /\ rendered = {1, 2}
  /\ opened = NoPath
  /\ Len(given.items) = 2
  /\ Len(fs[2].lines) = 5

\* C11: the session's stored state agrees with what was issued: the stored
\* zoom is the level of the most recent zoom directive the viewer accepted,
\* the stored pan target the coordinates of the most recent pan directive.
C11_Accepted(cmd) == {j \in DOMAIN trace : trace[j].cmd = cmd /\ trace[j].ok}
C11_Latest(cmd) ==
  CHOOSE j \in C11_Accepted(cmd) : \A k \in C11_Accepted(cmd) : k <= j
C11_StoredMatchesIssued ==
  /\ C11_Accepted("zoom") # {} =>
       trace[C11_Latest("zoom")].a = session.zoom
  /\ C11_Accepted("pan to physical") # {} =>
       /\ trace[C11_Latest("pan to physical")].a = session.x
       /\ trace[C11_Latest("pan to physical")].b = session.y

\* C12: one DS9 object is constructed in a run, the variable viewer names
\* it from then on (also after viewer = viewer.open_file(...)), and the
\* coordinate-system directive is the first directive of the run and is
\* issued once.
C12_OneSessionOneSystemDirective ==
  /\ made <= 1
  /\ pc # "start" => made = 1
  /\ viewer \in {0, 1}
  /\ pc \notin {"start", "crashed"} => viewer = 1
  /\ trace # <<>> =>
       trace[1].cmd = "regions system wcs sky fk5 skyformat degrees"
  /\ \A j \in DOMAIN trace :
       trace[j].cmd = "regions system wcs sky fk5 skyformat degrees" => j = 1
C12_Witness ==
  /\ pc = "sleep"
  /\ cur.i = 100
  /\ viewer = 1
  /\ made = 1
  /\ Len(trace) > 12

\* C13: when load_regions issues the load-overlay directive, the temporary
\* file it names exists, holds the whole overlay (header and one line per
\* region of the filtered catalogue) and the handle it was written through
\* is closed; the file is deleted only afterwards (load_regions still holds
\* its own NamedTemporaryFile handle on it).
C13_DirectiveIssued ==
  /\ pc = "lr_exit"
  /\ trace # <<>>
  /\ Last(trace).cmd = "regions"
C13_OverlayCompleteWhenLoaded ==
  (pc = "lr_set" \/ C13_DirectiveIssued) =>
    /\ tfile \in FileIds
    /\ fs[tfile].exists
    /\ ~fs[tfile].writing
    /\ fs[tfile].open
    /\ tfile \in rendered
    /\ Len(fs[tfile].lines) = 3 + Len(given.items)
    /\ fs[tfile].lines[3] = <<"fk5">>
    /\ \A j \in 1..Len(given.items) : fs[tfile].lines[3 + j][1] = "circle("
    /\ C13_DirectiveIssued =>
         Last(trace).path = [dir |-> "tmp", stem |-> "regions.", id |-> tfile, ext |-> <<".ds9">>]
C13_Witness ==
  /\ C13_DirectiveIssued
  /\ Last(trace).ok
  /\ Len(given.items) = 2
  /\ Len(fs[tfile].lines) = 5

\* C14: catalogues are opened for selected cycles only: a catalogue path is
\* opened only inside load_regions and is the current triple's, whose index
\* is a multiple of 100; a triple whose index is not a multiple of 100
\* issues nothing to the viewer, creates no file and is followed at once by
\* the next step of the pairing.
C14_OnlySelectedCyclesTouch ==
  /\ opened # NoPath =>
       InLoadRegions /\ opened = cur.photfile /\ cur.i % 100 = 0
  /\ \A j \in DOMAIN trace :
       trace[j].cyc # None => trace[j].cyc % 100 = 0
  /\ (cur.i # None /\ cur.i % 100 # 0) =>
       /\ pc \in {"loop", "done"}
       /\ Existing = {}
       /\ tfile = 0
       /\ catalog = <<>>
C14_Witness ==
  /\ pc = "loop"
  /\ cur.i = 101
  /\ opened = NoPath
  /\ Last(trace).op = "sleep"
  /\ Last(trace).cyc = 100

\* C15: a completed hide_ui has issued one 'view <element> no' for each of
\* buttons, panner, magnifier, filename, object and info, then 'sleep', and
\* nothing else; hide directives occur only inside such a call, and never
\* when the hide-UI toggle is off.
C15_Hides(c) ==
  {j \in DOMAIN trace : trace[j].cmd = "view no" /\ trace[j].cyc = c}
C15_HideUi ==
  /\ ~args.hide_ui => \A j \in DOMAIN trace : trace[j].cmd # "view no"
  /\ \A c \in CyclesShown :
       /\ Cardinality(C15_Hides(c)) <= 6
       /\ \A j, k \in C15_Hides(c) : trace[j].a = trace[k].a => j = k
       /\ \A j \in C15_Hides(c) :
            UiElements[trace[j].a] \in
              {"buttons", "panner", "magnifier", "filename", "object", "info"}
  /\ (args.hide_ui /\ pc = "zoom") =>
       /\ Len(trace) >= 12
       /\ trace[Len(trace) - 7].cmd = "zoom"
       /\ {UiElements[trace[Len(trace) - k].a] : k \in 1..6} =
            {"buttons", "panner", "magnifier", "filename", "object", "info"}
       /\ \A k \in 1..6 :
            trace[Len(trace) - k].cmd = "view no" /\ trace[Len(trace) - k].ok
       /\ Last(trace).op = "set"
       /\ Last(trace).cmd = "sleep"
       /\ Last(trace).ok
C15_Witness ==
  /\ args.hide_ui
  /\ pc = "zoom"
  /\ cur.i = 100
  /\ Last(trace).cmd = "sleep"
  /\ Cardinality(C15_Hides(100)) = 6

\* C16: when the enumeration is exhausted and nothing failed, no close or
\* quit directive was issued: the last directive of the run is the overlay
\* load of the last selected cycle, or the session-start directive when the
\* enumeration was empty.
C16_Directives == {j \in DOMAIN trace : trace[j].op = "set"}
C16_LastDirective ==
  trace[CHOOSE j \in C16_Directives : \A k \in C16_Directives : k <= j]
C16_ExhaustedNoClose ==
  pc = "done" =>
    /\ \A j \in DOMAIN trace : trace[j].cmd \notin {"quit", "exit", "close"}
    /\ nfiles = 0 =>
         C16_LastDirective.cmd = "regions system wcs sky fk5 skyformat degrees"
    /\ nfiles > 0 =>
         /\ cur.i # None
         /\ C16_LastDirective.cmd = "regions"
         /\ C16_LastDirective.cyc = (cur.i \div 100) * 100

\* The run of main() ends: the enumeration is exhausted or an exception
\* left main().
C16_Terminates == <>(pc \in {"done", "crashed"})
====
